---- MODULE Spec2Model ----
(***************************************************************************)
(* Model of duncan's one-off Chronos job runner (package chronos):         *)
(* task-name derivation (sanitizedCommand), the paginated Mesos task       *)
(* catalog fetch (scheduledTasks), the submission (RunCommand,             *)
(* launchChronosOneOffCommand) and the polling monitor (handleTask) with   *)
(* its log steps (openLogPage, printLogs).                                 *)
(*                                                                         *)
(* Strings are sequences of one-character strings, so that splitting,      *)
(* trimming, matching and joining are computed and not assumed.            *)
(***************************************************************************)
EXTENDS Integers, Sequences, FiniteSets, TLC

VARIABLES
    task,       \* TaskVars of RunCommand: App, Env, Tag, Command, TaskName
    pc,         \* position of the command's single thread of control
    catalog,    \* the Mesos task catalog (external), in API order
    nextId,     \* next record id the scheduler hands out
    offset,     \* scheduledTasks: offset of the next page request
    tasks,      \* scheduledTasks: records accumulated over the pages so far
    pages,      \* scheduledTasks: page requests issued by the current call
    count,      \* handleTask's count argument: len(tasks) of the baseline fetch
    fetched,    \* handleTask: the slice returned by the latest poll's fetch
    inspected,  \* indexes of fetched whose State the latest poll read
    err,        \* the error RunCommand / handleTask returned ("nil" = success)
    dur,        \* the duration the monitor reported, NoTime when none
    posts,      \* submission POSTs sent to the scheduler endpoint
    polls,      \* completed polls of handleTask (saturates at MaxPolls)
    steps,      \* side effects of the latest poll, in the order performed
    opens,      \* calls of openLogPage for a Running record (saturates)
    pending,    \* jobs the scheduler accepted and has not yet listed
    deployments,\* marathon: ids of the deployments Marathon lists (external)
    id,         \* marathon: the argument of waitForDeployment
    wpc,        \* marathon: position of waitForDeployment
    werr,       \* marathon: the error waitForDeployment returned
    seen,       \* marathon: the list d decoded by the latest poll
    wpolls,     \* marathon: polls that went round again (saturates)
    KVPairs,    \* vault: the map of the Secrets passed to Write or Delete
    given,      \* vault: KVPairs as it was when the call began
    vop,        \* vault: the function called, "write" or "delete"
    args,       \* vault: its kvs or keys argument
    vpc,        \* vault: position of the call
    verr,       \* vault: the error the call returned
    sent,       \* vault: the maps handed to update requests, in order
    ret         \* vault: the Secrets returned: <<>> for nil, else <<map>>

marathonVars == <<deployments, id, wpc, werr, seen, wpolls>>

vaultVars == <<KVPairs, given, vop, args, vpc, verr, sent, ret>>

vars == <<task, pc, catalog, nextId, offset, tasks, pages, count, fetched,
          inspected, err, dur, posts, polls, steps, opens, pending,
          marathonVars, vaultVars>>

\* a map[string]string: nil, or a function from keys to values
NilMap == [isNil |-> TRUE, kv |-> <<>>]
MapOf(f) == [isNil |-> FALSE, kv |-> f]

\* no call of waitForDeployment in progress
MarathonIdle ==
    /\ deployments = {} /\ id = 0 /\ wpc = "idle" /\ werr = "nil"
    /\ seen = {} /\ wpolls = 0

\* no call of vault.Write or vault.Delete in progress
VaultIdle ==
    /\ KVPairs = NilMap /\ given = NilMap /\ vop = "none" /\ args = <<>>
    /\ vpc = "idle" /\ verr = "nil" /\ sent = <<>> /\ ret = <<>>

-----------------------------------------------------------------------------
(* Bounds of the model *)

\* longest command string drawn for the name derivation
MaxLen == 4
\* most records of the tracked name present before the submission
MaxBaseline == 2
\* value at which the poll counter stops counting
MaxPolls == 2
\* most pages of a static catalog in the pagination specification
MaxPages == 2
\* most deployments Marathon runs at once
MaxDeploys == 3
\* most arguments of one vault.Write or vault.Delete
MaxArgs == 2

-----------------------------------------------------------------------------
(* Characters and strings *)

Lower == {"a","b","c","d","e","f","g","h","i","j","k","l","m",
          "n","o","p","q","r","s","t","u","v","w","x","y","z"}

\* the characters unicode.IsSpace accepts, among those the model draws
Space == {" ", "\t"}

\* lowercase, uppercase, digit, symbols, the separator itself, blanks
Alphabet == {"a", "z", "A", "7", ":", "-", " ", "\t"}

Min(a, b) == IF a < b THEN a ELSE b

Str(n) == UNION {[1..k -> Alphabet] : k \in 0..n}

RECURSIVE JoinWith(_, _)
\* strings.Join(parts, sep)
JoinWith(parts, sep) ==
    IF parts = <<>> THEN <<>>
    ELSE IF Len(parts) = 1 THEN parts[1]
    ELSE parts[1] \o sep \o JoinWith(Tail(parts), sep)

RECURSIVE SplitOn(_, _)
\* strings.Split(s, sep) for a one-character sep: n separators give n+1 parts
SplitOn(s, c) ==
    IF \A i \in 1..Len(s) : s[i] # c THEN <<s>>
    ELSE LET i == CHOOSE k \in 1..Len(s) :
                     s[k] = c /\ \A j \in 1..(k-1) : s[j] # c
         IN  <<SubSeq(s, 1, i-1)>> \o SplitOn(SubSeq(s, i+1, Len(s)), c)

RECURSIVE TrimLeft(_)
TrimLeft(s) == IF s # <<>> /\ s[1] \in Space THEN TrimLeft(Tail(s)) ELSE s

RECURSIVE TrimRight(_)
TrimRight(s) ==
    IF s # <<>> /\ s[Len(s)] \in Space
    THEN TrimRight(SubSeq(s, 1, Len(s)-1)) ELSE s

\* strings.TrimSpace
TrimSpace(s) == TrimRight(TrimLeft(s))

IsLowerBug(c) == c \in Lower \cup {"A", "7"}

\* the character class of the pattern "[a-z]*"
IsLower(c) == c \in Lower

RECURSIVE RunLen(_, _)
\* length of the longest match of "[a-z]*" in s at 0-based position pos
RunLen(s, pos) ==
    IF pos < Len(s) /\ IsLower(s[pos+1]) THEN 1 + RunLen(s, pos+1) ELSE 0

RECURSIVE allMatches(_, _, _)
\* regexp.FindAllString(s, -1) for "[a-z]*": the pattern matches at every
\* position, possibly emptily; an empty match that starts where the previous
\* match ended is dropped, and after an empty match the scan moves on by one
\* character.
allMatches(s, pos, prevMatchEnd) ==
    IF pos > Len(s) THEN <<>>
    ELSE LET k == RunLen(s, pos) IN
         IF k > 0
         THEN <<SubSeq(s, pos+1, pos+k)>> \o allMatches(s, pos+k, pos+k)
         ELSE (IF pos # prevMatchEnd THEN << <<>> >> ELSE <<>>)
              \o allMatches(s, pos+1, pos)

FindAllNonEmpty(s) == SelectSeq(allMatches(s, 0, -1), LAMBDA m : m # <<>>)

FindAllString(s) == allMatches(s, 0, -1)

TokenNameStrip(c) == JoinWith(FindAllString(TrimSpace(c)), <<>>)

\* sanitizedCommand, the loop body: the matches of one token joined by "-"
TokenName(c) == JoinWith(FindAllString(TrimSpace(c)), <<"-">>)

RECURSIVE SanitizeTokens(_)
\* the loop of sanitizedCommand over the split command
SanitizeTokens(p) ==
    IF p = <<>> THEN <<>>
    ELSE <<TokenName(p[1])>> \o SanitizeTokens(Tail(p))

sanitizedCommand(cmd) == JoinWith(SanitizeTokens(SplitOn(cmd, " ")), <<"-">>)

\* RunCommand: TaskName: strings.Join([]string{app, env, sanitizedCommand(cmd)}, "-")
TaskNameOf(app, env, cmd) == JoinWith(<<app, env, sanitizedCommand(cmd)>>, <<"-">>)

Foo == <<"f","o","o">>
Production == <<"p","r","o","d","u","c","t","i","o","n">>
RakeCmd == <<"r","a","k","e"," ","s","t","u","f","f",":","j","u","n","k">>

\* the commands the name derivation is applied to
Commands == Str(MaxLen) \cup {RakeCmd}

-----------------------------------------------------------------------------
(* Mesos task records *)

TaskStaging == "TASK_STAGING"
TaskRunning == "TASK_RUNNING"
TaskFinished == "TASK_FINISHED"
TaskFailed == "TASK_FAILED"
TaskKilled == "TASK_KILLED"
\* a state the switch of handleTask has no case for
TaskLost == "TASK_LOST"

Terminal == {TaskFinished, TaskFailed, TaskKilled}

\* an absent timestamp
NoTime == -1

OtherName == <<"o","t","h","e","r">>

\* job: which submission a record belongs to (bookkeeping, never read by
\* the program): "old" = before this command, "new" = this command's,
\* "fill" = a record of another name
Rec(i, n, st, t0, t1, j) ==
    [id |-> i, name |-> n, state |-> st, start |-> t0, stop |-> t1, job |-> j]

HasTimes(t) == t.start # NoTime /\ t.stop # NoTime

\* mesos.Task.Duration: seconds between start and stop
Duration(t) == t.stop - t.start

\* mesos.Tasks.TasksFor: the records of that name, in the order given
TasksFor(ts, name) == SelectSeq(ts, LAMBDA t : t.name = name)

-----------------------------------------------------------------------------
(* scheduledTasks: one page request per step *)

\* the page size the loop of scheduledTasks counts on
PageSize == 100

\* the catalog endpoint: at most a page of records from the offset on
Page(cat, off) == SubSeq(cat, off + 1, Min(off + PageSize, Len(cat)))

IsFullPageBug(t) == Len(t) > PageSize

\* scheduledTasks: "if len(t.Tasks) >= 100": another page is requested
IsFullPage(t) == Len(t) >= PageSize

\* scheduledTasks: "offset += 100"
NextOffset(off) == off + PageSize

\* outcomes of one page request that end the fetch with an error
FetchErrors == {"transport", "decode"}

-----------------------------------------------------------------------------
(* handleTask: what one poll does with the slice it fetched *)

\* outcomes of openLogPage: the page is opened ("ok", also when the open
\* command cannot be started), LogDirectory fails (os.Exit), or the
\* directory lacks the slaves marker (p[1] is out of range)
OpenOutcomes == {"ok", "direrr", "badpath"}

\* outcomes of printLogs: logs shown, LogDirectory fails (os.Exit), SlaveIP
\* fails (return), http.Get fails with a nil response (resp.Status is a nil
\* dereference), http.Get fails with a response (redirect policy), a status
\* other than 200, an undecodable body
PrintOutcomes == {"ok", "direrr", "iperr", "geterr", "redirecterr",
                  "non200", "decodeerr"}

\* how a log step ends: "go" (returns to handleTask), "exited", "panicked"
openLogPage(o) ==
    CASE o = "direrr" -> "exited"
      [] o = "badpath" -> "panicked"
      [] OTHER -> "go"

printLogs(l) ==
    CASE l = "direrr" -> "exited"
      [] l = "geterr" -> "panicked"
      [] OTHER -> "go"

SelectIndexBug(ts) == Len(ts)

\* handleTask: "task := tasks[0]"
SelectIndex(ts) == 1

CaseStepsBug(st) ==
    CASE st = TaskRunning -> <<"openLogPage">>
      [] st \in {TaskFinished, TaskFailed} ->
             <<"openLogPage", "Duration", "printLogs">>
      [] st = TaskKilled -> <<"Duration">>
      [] OTHER -> <<>>

\* the calls each case of the switch makes before it continues or returns
CaseSteps(st) ==
    CASE st = TaskRunning -> <<"openLogPage">>
      [] st = TaskStaging -> <<>>
      [] st = TaskFinished -> <<"openLogPage", "Duration", "printLogs">>
      [] st = TaskFailed -> <<"openLogPage", "printLogs", "Duration">>
      [] st = TaskKilled -> <<"Duration">>
      [] OTHER -> <<>>

\* how each case of the switch ends once its calls have returned
CaseEnd(t) ==
    CASE t.state \in {TaskRunning, TaskStaging} ->
             [pc |-> "poll", err |-> "nil", dur |-> NoTime]
      [] t.state = TaskFinished ->
             [pc |-> "returned", err |-> "nil", dur |-> Duration(t)]
      [] t.state = TaskFailed ->
             [pc |-> "returned", err |-> "failed", dur |-> Duration(t)]
      [] t.state = TaskKilled ->
             [pc |-> "returned", err |-> "killed", dur |-> Duration(t)]
      [] OTHER -> [pc |-> "returned", err |-> "unhandled", dur |-> NoTime]

\* one call of a case: "go" when handleTask carries on after it
StepResult(op, t, o, l) ==
    CASE op = "openLogPage" -> openLogPage(o)
      [] op = "printLogs" -> printLogs(l)
      [] op = "Duration" -> IF HasTimes(t) THEN "go" ELSE "missing"

RECURSIVE RunCase(_, _, _, _, _)
\* the calls of a case in order, up to the first that does not return
RunCase(ops, done, t, o, l) ==
    IF ops = <<>> THEN CaseEnd(t) @@ [steps |-> done]
    ELSE LET r == StepResult(ops[1], t, o, l)
             now == Append(done, ops[1])
         IN  CASE r = "go" -> RunCase(Tail(ops), now, t, o, l)
               [] r = "missing" ->
                      [pc |-> "returned", err |-> "missingTimestamp",
                       dur |-> NoTime, steps |-> now]
               [] OTHER ->
                      [pc |-> r, err |-> "nil", steps |-> now,
                       dur |-> IF t.state = TaskFinished /\ r # "go"
                                  /\ \E i \in 1..Len(done) : done[i] = "Duration"
                               THEN Duration(t) ELSE NoTime]

HandlePollAny(ts, cnt, o, l) ==
    IF Len(ts) = cnt \/ ts = <<>>
    THEN [pc |-> "poll", err |-> "nil", dur |-> NoTime, steps |-> <<>>,
          inspected |-> {}]
    ELSE RunCase(CaseSteps(ts[SelectIndex(ts)].state), <<>>,
                 ts[SelectIndex(ts)], o, l)
         @@ [inspected |-> {SelectIndex(ts)}]

\* the body of handleTask's loop after a successful fetch of ts
HandlePoll(ts, cnt, o, l) ==
    IF Len(ts) = cnt
    THEN [pc |-> "poll", err |-> "nil", dur |-> NoTime, steps |-> <<>>,
          inspected |-> {}]
    ELSE IF Len(ts) = cnt + 1
    THEN RunCase(CaseSteps(ts[SelectIndex(ts)].state), <<>>,
                 ts[SelectIndex(ts)], o, l)
         @@ [inspected |-> {SelectIndex(ts)}]
    ELSE [pc |-> "poll", err |-> "nil", dur |-> NoTime, steps |-> <<>>,
          inspected |-> {}]

-----------------------------------------------------------------------------
(* The command and the scheduler *)

\* the name RunCommand derives for the command of this model
JobName == TaskNameOf(Foo, Production, RakeCmd)

Done == {"returned", "exited", "panicked"}

\* k records of another name, ids from hi downwards
Fill(k, hi) ==
    [i \in 1..k |-> Rec(hi - i + 1, OtherName, TaskFinished, 1, 3, "fill")]

\* k finished records of the tracked name, ids from hi downwards
Olds(k, hi) ==
    [i \in 1..k |-> Rec(hi - i + 1, JobName, TaskFinished, 1, 3, "old")]

\* the catalog before the command: front records of other names, then n
\* records of the tracked name, newest first
StartCatalog(front, n) == Fill(front, front + n) \o Olds(n, n)

IdleLocals ==
    /\ offset = 0 /\ tasks = <<>> /\ pages = 0 /\ count = 0
    /\ fetched = <<>> /\ inspected = {} /\ err = "nil" /\ dur = NoTime
    /\ posts = 0 /\ polls = 0 /\ steps = <<>> /\ opens = 0 /\ pending = 0
    /\ MarathonIdle /\ VaultIdle

Init ==
    /\ task = [App |-> Foo, Env |-> Production, Tag |-> "",
               Command |-> RakeCmd, TaskName |-> <<>>]
    /\ pc = "start"
    /\ \E front \in {0, PageSize - 1}, n \in 0..MaxBaseline :
           /\ catalog = StartCatalog(front, n)
           /\ nextId = front + n + 1
    /\ IdleLocals

AfterTagBug(r) == "baseline"

\* RunCommand: "if err != nil { return err }" after fetchCurrentTag
AfterTag(r) == IF r = "ok" THEN "baseline" ELSE "returned"

\* RunCommand up to the call of launchChronosOneOffCommand: the tag lookup
\* fails (transport, 403, body read) or the task is named and the baseline
\* fetch begins
Start ==
    /\ pc = "start"
    /\ \E r \in {"ok", "tag", "acl"} :
          IF r = "ok"
          THEN /\ task' = [task EXCEPT !.Tag = "v1",
                              !.TaskName = TaskNameOf(task.App, task.Env, task.Command)]
               /\ pc' = AfterTag(r)
               /\ err' = err
          ELSE /\ pc' = AfterTag(r)
               /\ err' = r
               /\ task' = task
    /\ UNCHANGED <<marathonVars, vaultVars, catalog, nextId, offset, tasks, pages, count, fetched,
                   inspected, dur, posts, polls, steps, opens, pending>>

AfterFetchErrorRetry(caller) == caller

\* launchChronosOneOffCommand and handleTask: "return err" when
\* scheduledTasks fails
AfterFetchError(caller) == "returned"

\* scheduledTasks: a page request fails or its body does not decode (the
\* error return after TasksFor ends the call the same way); the caller
\* (launchChronosOneOffCommand or handleTask) returns the error and the
\* poll that failed has read no record
FetchFail ==
    /\ pc \in {"baseline", "poll", "fetch"}
    /\ \E e \in FetchErrors : err' = e
    /\ pc' = AfterFetchError(pc)
    /\ offset' = 0 /\ tasks' = <<>> /\ pages' = 0
    /\ fetched' = <<>> /\ inspected' = {} /\ steps' = <<>>
    /\ UNCHANGED <<marathonVars, vaultVars, task, catalog, nextId, count, dur, posts, polls, opens,
                   pending>>

\* scheduledTasks: a full page arrives and the loop asks for the next one
FetchMore ==
    /\ pc \in {"baseline", "poll", "fetch"}
    /\ LET t == Page(catalog, offset) IN
          /\ IsFullPage(t)
          /\ tasks' = tasks \o t
          /\ offset' = NextOffset(offset)
          /\ pages' = pages + 1
    /\ UNCHANGED <<marathonVars, vaultVars, task, pc, catalog, nextId, count, fetched, inspected, err,
                   dur, posts, polls, steps, opens, pending>>

\* launchChronosOneOffCommand: the baseline fetch returns; its length
\* becomes the count handed to handleTask
BaselineDone ==
    /\ pc = "baseline"
    /\ LET t == Page(catalog, offset) IN
          /\ ~IsFullPage(t)
          /\ count' = Len(TasksFor(tasks \o t, task.TaskName))
    /\ pc' = "post"
    /\ offset' = 0 /\ tasks' = <<>> /\ pages' = 0
    /\ UNCHANGED <<marathonVars, vaultVars, task, catalog, nextId, fetched, inspected, err, dur,
                   posts, polls, steps, opens, pending>>

AfterPostLenient(r) == IF r = "post" THEN "returned" ELSE "poll"

AfterPostBug(r) ==
    CASE r = "accepted" -> "poll"
      [] r = "post" -> "post"
      [] OTHER -> "returned"

\* launchChronosOneOffCommand: where control goes after the POST: into
\* handleTask on 204, back to the caller with the error otherwise
AfterPost(r) == IF r = "accepted" THEN "poll" ELSE "returned"

\* launchChronosOneOffCommand: the submission POST (the template renders:
\* it is a constant of the program). Transport failure and any status but
\* 204 return an error; 204 enters handleTask.
Post ==
    /\ pc = "post"
    /\ posts' = posts + 1
    /\ \E r \in {"accepted", "post", "rejected"} :
          /\ pc' = AfterPost(r)
          /\ pending' = IF r = "accepted" THEN pending + 1 ELSE pending
          /\ err' = IF r = "accepted" THEN err ELSE r
    /\ UNCHANGED <<marathonVars, vaultVars, task, catalog, nextId, offset, tasks, pages, count,
                   fetched, inspected, dur, polls, steps, opens>>

\* handleTask: the last page of a poll's fetch arrives and the loop body
\* runs on the fetched slice
PollDone ==
    /\ pc = "poll"
    /\ LET t == Page(catalog, offset) IN
          /\ ~IsFullPage(t)
          /\ \E o \in OpenOutcomes, l \in PrintOutcomes :
                LET rt == TasksFor(tasks \o t, task.TaskName)
                    r == HandlePoll(rt, count, o, l)
                IN  /\ fetched' = rt
                    /\ pc' = r.pc
                    /\ err' = r.err
                    /\ dur' = r.dur
                    /\ steps' = r.steps
                    /\ inspected' = r.inspected
                    /\ opens' = IF r.inspected # {} /\ r.steps # <<>>
                                    /\ r.steps[1] = "openLogPage"
                                    /\ \E i \in r.inspected : rt[i].state = TaskRunning
                                 THEN Min(opens + 1, MaxPolls) ELSE opens
    /\ polls' = Min(polls + 1, MaxPolls)
    /\ offset' = 0 /\ tasks' = <<>> /\ pages' = 0
    /\ UNCHANGED <<marathonVars, vaultVars, task, catalog, nextId, count, posts, pending>>

\* the scheduler lists the accepted job: a new record, newest first
SchedulerList ==
    /\ pc \notin Done
    /\ pending > 0
    /\ pending' = pending - 1
    /\ catalog' = <<Rec(nextId, JobName, TaskStaging, NoTime, NoTime, "new")>>
                   \o catalog
    /\ nextId' = nextId + 1
    /\ UNCHANGED <<marathonVars, vaultVars, task, pc, offset, tasks, pages, count, fetched, inspected,
                   err, dur, posts, polls, steps, opens>>

\* Mesos moves a task on: Staging to Running or to an end state, Running
\* to an end state; timestamps may be missing from the record
SchedulerMove(ends) ==
    /\ pc \notin Done
    /\ \E i \in 1..Len(catalog) :
          \/ /\ catalog[i].state = TaskStaging
             /\ \E t0 \in {1, NoTime} :
                   catalog' = [catalog EXCEPT ![i].state = TaskRunning,
                                               ![i].start = t0]
          \/ /\ catalog[i].state \in {TaskStaging, TaskRunning}
             /\ \E st \in ends, t1 \in {3, NoTime} :
                   catalog' = [catalog EXCEPT ![i].state = st, ![i].stop = t1]
    /\ UNCHANGED <<marathonVars, vaultVars, task, pc, nextId, offset, tasks, pages, count, fetched,
                   inspected, err, dur, posts, polls, steps, opens, pending>>

\* any move of Mesos, the states handleTask has no case for included
SchedulerStep == SchedulerMove(Terminal \cup {TaskLost})

\* Mesos forgets its oldest completed task
Expire ==
    /\ pc \notin Done
    /\ catalog # <<>>
    /\ catalog[Len(catalog)].job = "old"
    /\ catalog' = SubSeq(catalog, 1, Len(catalog) - 1)
    /\ UNCHANGED <<marathonVars, vaultVars, task, pc, nextId, offset, tasks, pages, count, fetched,
                   inspected, err, dur, posts, polls, steps, opens, pending>>

Next ==
    \/ Start \/ FetchFail \/ FetchMore \/ BaselineDone \/ Post \/ PollDone
    \/ SchedulerList \/ SchedulerStep \/ Expire

Spec == Init /\ [][Next]_vars

-----------------------------------------------------------------------------
(* Name derivation over all bounded commands *)

NamerInit ==
    /\ \E c \in Commands :
          task = [App |-> Foo, Env |-> Production, Tag |-> "",
                  Command |-> c, TaskName |-> <<>>]
    /\ pc = "start"
    /\ catalog = <<>> /\ nextId = 1
    /\ IdleLocals

NamerSpec == NamerInit /\ [][Start]_vars

-----------------------------------------------------------------------------
(* One call of scheduledTasks on a catalog that does not change *)

\* n records, newest first, every third of the tracked name
Mixed(n) ==
    [i \in 1..n |->
        LET k == n - i + 1 IN
        Rec(k, IF k % 3 = 0 THEN JobName ELSE OtherName, TaskFinished, 1, 3,
            IF k % 3 = 0 THEN "old" ELSE "fill")]

PagesInit ==
    /\ task = [App |-> Foo, Env |-> Production, Tag |-> "v1",
               Command |-> RakeCmd, TaskName |-> JobName]
    /\ pc = "fetch"
    /\ \E n \in 0..(MaxPages * PageSize) :
          /\ catalog = Mixed(n)
          /\ nextId = n + 1
    /\ IdleLocals

\* scheduledTasks: the first short page ends the loop and the records of
\* the name are returned
FetchReturn ==
    /\ pc = "fetch"
    /\ LET t == Page(catalog, offset) IN
          /\ ~IsFullPage(t)
          /\ tasks' = tasks \o t
          /\ fetched' = TasksFor(tasks \o t, task.TaskName)
    /\ pages' = pages + 1
    /\ pc' = "returned"
    /\ UNCHANGED <<marathonVars, vaultVars, task, catalog, nextId, offset, count, inspected, err, dur,
                   posts, polls, steps, opens, pending>>

PagesNext == FetchMore \/ FetchReturn \/ FetchFail

PagesSpec == PagesInit /\ [][PagesNext]_vars

-----------------------------------------------------------------------------
(* The monitor under the assumptions of its termination: every fetch      *)
(* succeeds, no record of the name comes or goes but the submitted one,   *)
(* which is listed and ends in Finished, Failed or Killed                 *)

SchedulerEnds == SchedulerMove(Terminal)

LiveNext ==
    \/ Start \/ FetchMore \/ BaselineDone \/ Post \/ PollDone
    \/ SchedulerList \/ SchedulerEnds

LiveSpec ==
    /\ Init /\ [][LiveNext]_vars
    /\ WF_vars(FetchMore) /\ WF_vars(PollDone)
    /\ WF_vars(SchedulerList) /\ WF_vars(SchedulerEnds)

-----------------------------------------------------------------------------
(* A second, identical command submitted by someone else while this one is
   monitored: its job gets the same derived name *)

MaxOverlap == 1

\* the scheduler lists a job of the other command, newest first
ForeignList ==
    /\ pc \in {"post", "poll"}
    /\ Len(SelectSeq(catalog, LAMBDA t : t.job = "other")) < MaxOverlap
    /\ catalog' = <<Rec(nextId, JobName, TaskStaging, NoTime, NoTime, "other")>>
                   \o catalog
    /\ nextId' = nextId + 1
    /\ UNCHANGED <<marathonVars, vaultVars, task, pc, offset, tasks, pages, count, fetched, inspected,
                   err, dur, posts, polls, steps, opens, pending>>

\* Mesos moves the job of this command on; the other command's job is
\* left as listed, since only the number of records matters here
OwnJobMove ==
    /\ pc \notin Done
    /\ \E i \in 1..Len(catalog) :
          /\ catalog[i].job = "new"
          /\ \/ /\ catalog[i].state = TaskStaging
                /\ catalog' = [catalog EXCEPT ![i].state = TaskRunning,
                                              ![i].start = 1]
             \/ /\ catalog[i].state \in {TaskStaging, TaskRunning}
                /\ \E st \in Terminal :
                      catalog' = [catalog EXCEPT ![i].state = st, ![i].stop = 3]
    /\ UNCHANGED <<marathonVars, vaultVars, task, pc, nextId, offset, tasks, pages, count, fetched,
                   inspected, err, dur, posts, polls, steps, opens, pending>>

OverlapInit ==
    /\ task = [App |-> Foo, Env |-> Production, Tag |-> "",
               Command |-> RakeCmd, TaskName |-> <<>>]
    /\ pc = "start"
    /\ \E n \in 0..MaxBaseline :
           /\ catalog = StartCatalog(0, n)
           /\ nextId = n + 1
    /\ IdleLocals

OverlapNext ==
    \/ Start \/ BaselineDone \/ Post \/ PollDone
    \/ SchedulerList \/ ForeignList \/ OwnJobMove \/ Expire

OverlapSpec == OverlapInit /\ [][OverlapNext]_vars

-----------------------------------------------------------------------------
(* marathon: waitForDeployment polls Marathon's deployments endpoint *)

\* no chronos command in progress
ChronosIdle ==
    /\ task = [App |-> Foo, Env |-> Production, Tag |-> "",
               Command |-> RakeCmd, TaskName |-> <<>>]
    /\ pc = "idle" /\ catalog = <<>> /\ nextId = 1
    /\ offset = 0 /\ tasks = <<>> /\ pages = 0 /\ count = 0
    /\ fetched = <<>> /\ inspected = {} /\ err = "nil" /\ dur = NoTime
    /\ posts = 0 /\ polls = 0 /\ steps = <<>> /\ opens = 0 /\ pending = 0

chronosVars == <<task, pc, catalog, nextId, offset, tasks, pages, count,
                 fetched, inspected, err, dur, posts, polls, steps, opens,
                 pending>>

DeployIds == 1..MaxDeploys

WaitDoneById(d, i) == i \notin d

\* waitForDeployment: "if len(d) == 0": the loop ends; id is not looked at
WaitDone(d, i) == d = {}

WaitInit ==
    /\ ChronosIdle /\ VaultIdle
    /\ id \in DeployIds
    /\ deployments \in SUBSET DeployIds
    /\ wpc = "wait" /\ werr = "nil" /\ seen = {} /\ wpolls = 0

\* one turn of the loop: sleep, GET, decode; a failed request or a body that
\* does not decode returns the error, an empty list returns nil
WaitPoll ==
    /\ wpc = "wait"
    /\ \E r \in {"ok", "transport", "decode"} :
          IF r # "ok"
          THEN /\ wpc' = "returned" /\ werr' = r
               /\ UNCHANGED <<seen, wpolls>>
          ELSE /\ seen' = deployments
               /\ werr' = werr
               /\ IF WaitDone(deployments, id)
                  THEN wpc' = "returned" /\ wpolls' = wpolls
                  ELSE wpc' = "wait" /\ wpolls' = Min(wpolls + 1, MaxPolls)
    /\ UNCHANGED <<chronosVars, vaultVars, deployments, id>>

\* Marathon finishes a deployment
DeployEnds ==
    /\ wpc = "wait"
    /\ \E d \in deployments : deployments' = deployments \ {d}
    /\ UNCHANGED <<chronosVars, vaultVars, id, wpc, werr, seen, wpolls>>

\* Marathon starts a deployment, of this or of any other application
DeployStarts ==
    /\ wpc = "wait"
    /\ \E d \in DeployIds \ deployments : deployments' = deployments \cup {d}
    /\ UNCHANGED <<chronosVars, vaultVars, id, wpc, werr, seen, wpolls>>

WaitNext == WaitPoll \/ DeployEnds \/ DeployStarts

WaitSpec == WaitInit /\ [][WaitNext]_vars

-----------------------------------------------------------------------------
(* vault: Write and Delete change the map of a Secrets and post it back *)

\* keys and values of the secrets of the model
VaultKeys == {<<"k">>, <<"j">>}
VaultValues == {<<"v">>, <<"w">>}

\* the maps a Secrets can hold: nil, or some of the keys with a value each
Maps ==
    {NilMap} \cup
    {MapOf(f) : f \in UNION {[K -> VaultValues] : K \in SUBSET VaultKeys}}

\* arguments of Write: well formed, naming a new key, with an empty key or
\* value, with a second "=", and with no "=" at all
WriteArgs ==
    { <<"k","=","v">>, <<"k","=","w">>, <<"j","=","v">>, <<"m","=","w">>,
      <<"=","v">>, <<"k","=">>, <<"k","=","v","=","w">>, <<"k">>, <<>> }

\* arguments of Delete: keys that may be present, and one that never is
DeleteArgs == VaultKeys \cup {<<"m">>}

\* all sequences over S of length at most n
RECURSIVE SeqsUpTo(_, _)
SeqsUpTo(S, n) ==
    IF n = 0 THEN {<<>>}
    ELSE LET shorter == SeqsUpTo(S, n - 1)
         IN  shorter \cup {Append(q, x) : q \in shorter, x \in S}

\* Write: "p[1]" is out of range when the argument has no "="; an
\* assignment to an entry of a nil map panics as well
WritePanics(m, kvs) ==
    \/ \E i \in 1..Len(kvs) : Len(SplitOn(kvs[i], "=")) < 2
    \/ m.isNil /\ kvs # <<>>

WriteOneBug(m, kvp) ==
    LET p == SplitOn(kvp, "=") IN MapOf([k \in {p[1]} |-> p[2]])

\* Write: "s.KVPairs[p[0]] = p[1]"
WriteOne(m, kvp) ==
    LET p == SplitOn(kvp, "=")
    IN  MapOf([k \in DOMAIN m.kv \cup {p[1]} |->
                  IF k = p[1] THEN p[2] ELSE m.kv[k]])

RECURSIVE WriteAll(_, _)
\* Write: the second loop over kvs
WriteAll(m, kvs) ==
    IF kvs = <<>> THEN m ELSE WriteAll(WriteOne(m, kvs[1]), Tail(kvs))

\* Delete: "delete(s.KVPairs, k)" for the k equal to key; a nil map has no
\* key to range over
DeleteOne(m, key) ==
    IF m.isNil THEN m ELSE MapOf([k \in DOMAIN m.kv \ {key} |-> m.kv[k]])

RECURSIVE DeleteAll(_, _)
\* Delete: the loop over keys
DeleteAll(m, keys) ==
    IF keys = <<>> THEN m ELSE DeleteAll(DeleteOne(m, keys[1]), Tail(keys))

\* outcomes of updateSecrets: 204, a transport error, any other status
UpdateOutcomes == {"ok", "transport", "status"}

VaultInit ==
    /\ ChronosIdle /\ MarathonIdle
    /\ KVPairs \in Maps /\ given = KVPairs
    /\ \/ vop = "write" /\ args \in SeqsUpTo(WriteArgs, MaxArgs)
       \/ vop = "delete" /\ args \in SeqsUpTo(DeleteArgs, MaxArgs)
    /\ vpc = "call" /\ verr = "nil" /\ sent = <<>> /\ ret = <<>>

\* updateSecrets and the return that follows it: the map m is marshalled
\* and posted once; s is returned on 204, nil and the error otherwise
Update(m) ==
    /\ KVPairs' = m
    /\ sent' = Append(sent, m)
    /\ vpc' = "returned"
    /\ \E u \in UpdateOutcomes :
          /\ verr' = IF u = "ok" THEN "nil" ELSE u
          /\ ret' = IF u = "ok" THEN <<m>> ELSE <<>>

\* vault.Write
Write ==
    /\ vpc = "call" /\ vop = "write"
    /\ IF WritePanics(KVPairs, args)
       THEN vpc' = "panicked" /\ UNCHANGED <<KVPairs, verr, sent, ret>>
       ELSE Update(WriteAll(KVPairs, args))
    /\ UNCHANGED <<chronosVars, marathonVars, given, vop, args>>

\* vault.Delete
Delete ==
    /\ vpc = "call" /\ vop = "delete"
    /\ Update(DeleteAll(KVPairs, args))
    /\ UNCHANGED <<chronosVars, marathonVars, given, vop, args>>

VaultNext == Write \/ Delete

VaultSpec == VaultInit /\ [][VaultNext]_vars

-----------------------------------------------------------------------------
(* Properties *)

\* the record the latest poll read the state of
Sel == fetched[CHOOSE i \in inspected : TRUE]

Handled == {TaskStaging, TaskRunning, TaskFinished, TaskFailed, TaskKilled}

\* C1: a poll whose fetch has count+1 records reads the state of the first
\* record of the fetched slice, and no poll reads any other position
C1_FirstSelected ==
    /\ inspected \subseteq {1}
    /\ Len(fetched) = count + 1 => inspected = {1}

C1_Witness ==
    /\ count >= 2 /\ Len(fetched) = count + 1 /\ inspected = {1}
    /\ fetched[1].job = "new"

\* C2: each of the five handled states of the selected record ends the
\* poll by polling again or by returning, and any other state makes the
\* monitor return the unhandled-state error in that poll
C2_StateTotality ==
    inspected # {} =>
        /\ Sel.state \in Handled => pc \in {"poll", "returned"}
        /\ Sel.state \notin Handled => pc = "returned" /\ err = "unhandled"

\* C3: with every fetch succeeding, fair polling, no other record of the
\* name coming or going, and the submitted job listed and ending in a
\* terminal state, handleTask, once entered, eventually returns
C3_MonitorReturns == (pc = "poll") ~> (pc = "returned")

\* C4: for a selected Finished or Failed record with both timestamps, no
\* outcome of the log steps changes the result (success, or the failure
\* with its duration), and the log steps never end the process
C4_LogFailureNonFatal ==
    (inspected # {} /\ Sel.state \in {TaskFinished, TaskFailed}) =>
        /\ pc \notin {"exited", "panicked"}
        /\ HasTimes(Sel) =>
              /\ pc = "returned"
              /\ err = (IF Sel.state = TaskFinished THEN "nil" ELSE "failed")
              /\ dur = Duration(Sel)

\* C5: RunCommand sends at most one submission POST, whatever the tag
\* lookup, the baseline fetch, the POST and the polls do
C5_AtMostOnePost == posts <= 1

C5_Witness == posts = 1 /\ polls >= 2 /\ pc = "poll"

\* C6: a selected record in a terminal state that lacks its start or stop
\* timestamp makes the monitor return the missing-timestamp error, with no
\* success and no duration reported
C6_MissingTimestamp ==
    (inspected # {} /\ Sel.state \in Terminal /\ ~HasTimes(Sel)) =>
        pc = "returned" /\ err = "missingTimestamp" /\ dur = NoTime

\* C7: the monitor returns success only from a poll with count+1 records
\* whose first record is Finished with both timestamps, and a selected
\* Failed or Killed record with both timestamps always gives the failure
\* result carrying the duration
C7_SuccessOnlyFinished ==
    /\ (pc = "returned" /\ err = "nil") =>
          /\ Len(fetched) = count + 1
          /\ fetched[1].state = TaskFinished
          /\ HasTimes(fetched[1])
    /\ (inspected # {} /\ Sel.state \in {TaskFailed, TaskKilled}
          /\ HasTimes(Sel)) =>
          /\ pc = "returned"
          /\ err = (IF Sel.state = TaskFailed THEN "failed" ELSE "killed")
          /\ dur = Duration(Sel)

\* C8: on a static catalog scheduledTasks asks for pages at offsets 0, 100,
\* 200, ..., stops at the first short page (an empty one when the total is
\* a multiple of 100) and has then accumulated the catalog, each record
\* once, in API order
C8_PagingTerminates ==
    /\ pc = "fetch" => offset = pages * PageSize /\ offset <= Len(catalog)
    /\ (pc = "returned" /\ err = "nil") =>
          /\ tasks = catalog
          /\ pages = (Len(catalog) \div PageSize) + 1
          /\ fetched = TasksFor(catalog, JobName)

C8_Witness ==
    /\ pc = "returned" /\ err = "nil" /\ tasks = catalog
    /\ Len(catalog) >= PageSize /\ Len(catalog) % PageSize = 0

\* C9 as stated: for app foo, env production and command
\* "rake stuff:junk" the task name is foo-production-rake-stuffjunk
C9_StuffJunk ==
    (task.Command = RakeCmd /\ pc = "baseline") =>
        task.TaskName = <<"f","o","o","-","p","r","o","d","u","c","t","i","o","n",
                          "-","r","a","k","e","-","s","t","u","f","f",
                          "j","u","n","k">>

\* C9 amended: for app foo, env production and command "rake stuff:junk"
\* the task name is foo-production-rake-stuff-junk: the two lowercase runs
\* of the token stuff:junk are joined by the separator
C9_StuffDashJunk ==
    (task.Command = RakeCmd /\ pc = "baseline") =>
        task.TaskName = <<"f","o","o","-","p","r","o","d","u","c","t","i","o","n",
                          "-","r","a","k","e","-","s","t","u","f","f","-",
                          "j","u","n","k">>

C9_Witness == task.Command = RakeCmd /\ pc = "baseline"

\* the part of the task name that sanitizedCommand produced
Sanitized ==
    SubSeq(task.TaskName, Len(task.App) + Len(task.Env) + 3, Len(task.TaskName))

\* C10: for every command over the alphabet, the output of
\* sanitizedCommand holds only the letters a-z and the separator
C10_OnlyLowerAndDash ==
    pc = "baseline" =>
        \A i \in 1..Len(Sanitized) : Sanitized[i] \in Lower \cup {"-"}

C10_Witness ==
    /\ pc = "baseline"
    /\ \A c \in {"a", "A", "7", " "} :
          \E i \in 1..Len(task.Command) : task.Command[i] = c
    /\ Sanitized = <<"a", "-", "-", "-">>

\* C11: a submission POST that fails in transport or is answered with any
\* status but 204 makes launchChronosOneOffCommand return an error (its own
\* for the rejected status, which carries the body), and handleTask is not
\* entered: no poll and no page request follows
C11_RejectedNoMonitor ==
    err \in {"post", "rejected"} =>
        /\ pc = "returned" /\ posts = 1
        /\ polls = 0 /\ pages = 0 /\ offset = 0 /\ fetched = <<>>
        /\ pending = 0

C11_Witness == err = "rejected" /\ pc = "returned" /\ posts = 1 /\ count = 2

\* C12: the result of one scheduledTasks call is a consistent snapshot even
\* when the scheduler lists a record between two page requests: no record
\* appears twice in it (so it never counts more same-named records than were
\* listed), and the record handleTask inspects is never one that predates
\* the submission
C12_ConsistentSnapshot ==
    /\ \A i, j \in 1..Len(fetched) : fetched[i].id = fetched[j].id => i = j
    /\ inspected # {} => Sel.job = "new"

\* C13: the log page of a Running record is opened at most once in one
\* monitoring run, however many polls observe the record in Running
C13_LogPageOnce == opens <= 1

\* the calls op made for the record inspected by the latest poll
Made(op) == {i \in 1..Len(steps) : steps[i] = op}

\* C14 as stated: for a Finished and for a Failed record the duration is
\* computed before the logs are retrieved, so a MissingTimestamp failure
\* leaves the logs of that record unretrieved
C14_DurationBeforeLogs ==
    (inspected # {} /\ Sel.state \in {TaskFinished, TaskFailed}) =>
        /\ \A i \in Made("printLogs") : \E j \in Made("Duration") : j < i
        /\ err = "missingTimestamp" => Made("printLogs") = {}

\* C14 amended: openLogPage comes first for both states; for a Finished
\* record Duration precedes printLogs, so MissingTimestamp means no printLogs;
\* for a Failed record printLogs precedes Duration, so MissingTimestamp is
\* returned after the logs were retrieved
C14_OrderPerState ==
    (inspected # {} /\ Sel.state \in {TaskFinished, TaskFailed}) =>
        /\ steps # <<>> /\ steps[1] = "openLogPage"
        /\ Sel.state = TaskFinished =>
               /\ \A i \in Made("printLogs") : \E j \in Made("Duration") : j < i
               /\ err = "missingTimestamp" => Made("printLogs") = {}
        /\ Sel.state = TaskFailed =>
               /\ \A i \in Made("Duration") : \E j \in Made("printLogs") : j < i
               /\ err = "missingTimestamp" => Made("printLogs") # {}

C14_Witness ==
    /\ inspected # {} /\ Sel.state = TaskFailed /\ pc = "returned"
    /\ err = "missingTimestamp" /\ steps = <<"openLogPage", "printLogs", "Duration">>

\* the latest poll fetched a count that is neither the baseline nor one more
OtherCount ==
    /\ polls > 0 /\ err \notin FetchErrors
    /\ Len(fetched) \notin {count, count + 1}

\* C15 as stated: on a count that is neither the baseline nor baseline+1
\* handleTask inspects the first record, as it does on baseline+1
C15_OtherCountInspectsFirst == OtherCount /\ fetched # <<>> => inspected = {1}

\* C15 amended: on a count that is neither the baseline nor baseline+1
\* handleTask inspects no record, makes no call for one, and polls again
C15_OtherCountIgnored ==
    OtherCount => inspected = {} /\ steps = <<>> /\ pc = "poll" /\ err = "nil"

C15_Witness ==
    /\ OtherCount /\ Len(fetched) = count + 2 /\ pc = "poll"
    /\ fetched[1].state \in Terminal

\* C16: the POST is sent only after the tag lookup and one whole baseline
\* fetch have succeeded (a failure of either returns with no POST sent); the
\* baseline is the number of same-named records that fetch returned, and no
\* step of the submission or of the monitor changes it afterwards
C16_BaselineFixed ==
    /\ [](err \in {"tag", "acl"} => posts = 0 /\ pc = "returned")
    /\ [](pc \in {"start", "baseline"} => posts = 0 /\ polls = 0)
    /\ [][/\ posts' # posts => pc = "post"
          /\ pc = "baseline" /\ pc' = "returned" => posts' = 0
          /\ pc = "baseline" /\ pc' = "post" =>
                 /\ count' = Len(TasksFor(tasks \o Page(catalog, offset), JobName))
                 /\ pages = 0 => count' = Len(TasksFor(catalog, JobName))
          /\ pc \in {"post", "poll"} => count' = count]_vars

C16_Witness == pc = "poll" /\ polls = MaxPolls /\ count = 1 /\ Len(fetched) = 2

\* C17: a page request that fails in transport or does not decode ends the
\* whole fetch with that error and no record, not even those of the pages
\* already read; the caller returns the error at once: nothing is inspected
\* and no step (so no further request) follows
C17_FetchErrorFinal ==
    /\ [](err \in FetchErrors =>
            /\ pc = "returned"
            /\ tasks = <<>> /\ fetched = <<>> /\ inspected = {} /\ steps = <<>>)
    /\ [][err \notin FetchErrors]_vars

C17_Witness ==
    /\ err = "decode" /\ pc = "returned" /\ posts = 1 /\ polls = 1
    /\ Len(catalog) > PageSize

\* the command's tokens have a lowercase letter / have none
HasLower(tok) == \E i \in 1..Len(tok) : tok[i] \in Lower

\* k separators
Dashes(k) == [i \in 1..k |-> "-"]

C19_WaitsForEmptyList ==
    /\ [](wpc = "returned" /\ werr = "nil" => seen = {})
    /\ [](wpc = "wait" /\ wpolls > 0 => seen # {} /\ werr = "nil")
    /\ [](werr # "nil" => wpc = "returned")
    /\ [][wpc = "wait"]_vars

C19_Witness ==
    /\ wpc = "wait" /\ wpolls = MaxPolls
    /\ seen # {} /\ id \notin seen /\ id \notin deployments

\* the keys of a map, none for the nil map
Keys(m) == DOMAIN m.kv

\* the keys the arguments of the call name
Named ==
    IF vop = "write" THEN {SplitOn(args[i], "=")[1] : i \in 1..Len(args)}
    ELSE {args[i] : i \in 1..Len(args)}

\* C20: Write sets exactly the keys its key=value arguments name and Delete
\* removes exactly the keys it is given; every other pair of the map is the
\* same in the map posted by the one update request, which is the map
\* returned when the update succeeds
C20_FrameOfWriteAndDelete ==
    vpc = "returned" =>
        /\ Len(sent) = 1
        /\ verr = "nil" => ret = <<sent[1]>>
        /\ verr # "nil" => ret = <<>>
        /\ \A k \in (Keys(given) \cup Keys(sent[1])) \ Named :
               /\ k \in Keys(given) /\ k \in Keys(sent[1])
               /\ sent[1].kv[k] = given.kv[k]
        /\ vop = "write" =>
               \A i \in 1..Len(args) :
                   LET p == SplitOn(args[i], "=")
                   IN  /\ p[1] \in Keys(sent[1])
                       /\ (\A j \in (i+1)..Len(args) :
                               SplitOn(args[j], "=")[1] # p[1])
                           => sent[1].kv[p[1]] = p[2]
        /\ vop = "delete" => Named \cap Keys(sent[1]) = {}

C20_Witness ==
    /\ vpc = "returned" /\ vop = "write" /\ verr = "nil"
    /\ args = << <<"k","=","w">>, <<"m","=","w">> >>
    /\ given = MapOf([k \in VaultKeys |-> <<"v">>])
    /\ ret = <<MapOf([k \in VaultKeys \cup {<<"m">>} |->
                        IF k = <<"j">> THEN <<"v">> ELSE <<"w">>])>>

====
